---- MODULE Spec2Model ----
(***************************************************************************)
(* A model of fluent-typebox: the fluent builder facade over TypeBox       *)
(* schemas (FluentTypeBuilder, FluentTypeBuilderBase and its subclasses,   *)
(* ObjectFluentTypeBuilder) and the compiled checker wrapper               *)
(* (FluentTypeCheck, TransformedFluentTypeCheck, FluentTypeCheckError).    *)
(*                                                                         *)
(* Builders, checkers and error objects live in heaps (sequences indexed   *)
(* by reference), so that "the same instance" and "a new instance" are     *)
(* statements about references.  Runtime values are named by identity: two *)
(* values with the same content ("obj" and "objTwin") are different values.*)
(***************************************************************************)
EXTENDS Naturals, Sequences, FiniteSets, TLC

VARIABLES
    builders,      \* heap of builder instances: [cls, type] (+ properties)
    madeBy,        \* per builder: the call that returned it, [op, self, arg, options]
    checkers,      \* heap of checker instances: [cls, typeCheck] (+ transform)
    compiledBy,    \* per checker: the compile call that returned it, [builder, transform]
    caught,        \* the FluentTypeCheckError the caller holds: <<>> or <<error>>
    stdout,        \* the Writable handed to writeDetailedOutput: chunks written
    last,          \* the last call: [op, self, arg, outcome, ret, enumerated]
    transformLog,  \* per checker: the arguments its transform was invoked with
    parseLog       \* per checker: the accepted values parse was called with

vars == <<builders, madeBy, checkers, compiledBy, caught, stdout, last,
          transformLog, parseLog>>

-----------------------------------------------------------------------------
(* Bounds of the model *)

MaxBuilders == 5     \* builder instances allocated
MaxParses == 1       \* parse calls on accepted values, over all checkers
MaxStdout == 2       \* writeDetailedOutput is called while stdout is shorter

-----------------------------------------------------------------------------
(* Runtime values (JavaScript values handed to check / errors / parse).     *)
(* A value is named by its identity; ValueType / ValueFields give content.  *)

Values == {"str", "five", "null", "undef", "obj", "objTwin", "objBad", "objEmpty"}

\* the values callers pass to check / errors / parse
Inputs == {"five", "obj", "objTwin", "objBad", "objEmpty"}

FieldNames == {"id", "name"}
FieldOrder == <<"id", "name">>

ValueType(v) ==
    CASE v = "str" -> "string"
      [] v = "five" -> "number"
      [] v = "null" -> "null"
      [] v = "undef" -> "undefined"
      [] OTHER -> "object"

\* own enumerable properties of an object value: field name -> value
ValueFields(v) ==
    CASE v = "obj" -> [id |-> "five"]
      [] v = "objTwin" -> [id |-> "five"]
      [] v = "objBad" -> [id |-> "str"]
      [] OTHER -> [n \in {} |-> "undef"]

\* value[key] in JavaScript: undefined for a missing key or a primitive
GetField(v, key) ==
    IF key \in DOMAIN ValueFields(v) THEN ValueFields(v)[key] ELSE "undef"

\* String(value), as a template literal `${value}` renders it
TemplateString(v) ==
    CASE v = "str" -> "a"
      [] v = "five" -> "5"
      [] v = "null" -> "null"
      [] v = "undef" -> "undefined"
      [] OTHER -> "[object Object]"

\* util.inspect(value)
inspect(v) ==
    CASE v = "str" -> "'a'"
      [] v = "five" -> "5"
      [] v = "null" -> "null"
      [] v = "undef" -> "undefined"
      [] v = "obj" -> "{ id: 5 }"
      [] v = "objTwin" -> "{ id: 5 }"
      [] v = "objBad" -> "{ id: 'a' }"
      [] OTHER -> "{}"

-----------------------------------------------------------------------------
(* The schema library (TypeBox) as the facade uses it: Type.* constructors  *)
(* build schema handles, TypeCompiler.Compile binds a validator to one.     *)

Options == {"undefined", "closed"}   \* "closed": { additionalProperties: false }

TypeString == [kind |-> "String"]
TypeInteger == [kind |-> "Integer"]
TypeNull == [kind |-> "Null"]
TypeOptional(s) == [kind |-> "Optional", item |-> s]
TypeUnion(ss, options) == [kind |-> "Union", anyOf |-> ss, options |-> options]
TypeArray(s, options) == [kind |-> "Array", items |-> s, options |-> options]
TypePromise(s, options) == [kind |-> "Promise", item |-> s, options |-> options]
TypeObject(props, options) ==
    [kind |-> "Object", properties |-> props, options |-> options]
TypePartial(s, options) ==
    [kind |-> "Object",
     properties |-> [k \in DOMAIN s.properties |->
                        IF s.properties[k].kind = "Optional"
                        THEN s.properties[k]
                        ELSE TypeOptional(s.properties[k])],
     options |-> options]

Required(s) == {k \in DOMAIN s.properties : s.properties[k].kind # "Optional"}

RECURSIVE LibCheck(_, _)
\* TypeCheck.Check(value) of the validator compiled from schema s
LibCheck(s, v) ==
    CASE s.kind = "String" -> ValueType(v) = "string"
      [] s.kind = "Integer" -> ValueType(v) = "number"
      [] s.kind = "Null" -> ValueType(v) = "null"
      [] s.kind = "Optional" -> LibCheck(s.item, v)
      [] s.kind = "Union" -> \E i \in DOMAIN s.anyOf : LibCheck(s.anyOf[i], v)
      [] s.kind = "Object" ->
            /\ ValueType(v) = "object"
            /\ s.options = "closed" => DOMAIN ValueFields(v) \subseteq DOMAIN s.properties
            /\ \A k \in DOMAIN s.properties :
                 IF k \in Required(s)
                 THEN k \in DOMAIN ValueFields(v) /\ LibCheck(s.properties[k], GetField(v, k))
                 ELSE GetField(v, k) = "undef" \/ LibCheck(s.properties[k], GetField(v, k))
      [] OTHER -> FALSE    \* Array, Promise: no value of the model is one

ValueError(path, message, v) == [path |-> path, message |-> message, value |-> v]

RECURSIVE Flatten(_)
Flatten(seqs) == IF seqs = <<>> THEN <<>> ELSE Head(seqs) \o Flatten(Tail(seqs))

RECURSIVE LibErrors(_, _, _)
\* TypeCheck.Errors(value): the errors the validator's iterator yields, in order
LibErrors(s, path, v) ==
    CASE s.kind = "String" ->
            IF ValueType(v) = "string" THEN <<>>
            ELSE <<ValueError(path, "Expected string", v)>>
      [] s.kind = "Integer" ->
            IF ValueType(v) = "number" THEN <<>>
            ELSE <<ValueError(path, "Expected integer", v)>>
      [] s.kind = "Null" ->
            IF ValueType(v) = "null" THEN <<>>
            ELSE <<ValueError(path, "Expected null", v)>>
      [] s.kind = "Optional" -> LibErrors(s.item, path, v)
      [] s.kind = "Union" ->
            IF \E i \in DOMAIN s.anyOf : LibErrors(s.anyOf[i], path, v) = <<>>
            THEN <<>>
            ELSE LET all == Flatten([i \in DOMAIN s.anyOf |-> LibErrors(s.anyOf[i], path, v)])
                 IN  IF all = <<>> THEN <<>>
                     ELSE all \o <<ValueError(path, "Expected value of union", v)>>
      [] s.kind = "Object" ->
            IF ValueType(v) # "object"
            THEN <<ValueError(path, "Expected object", v)>>
            ELSE LET extra == [i \in DOMAIN FieldOrder |->
                        LET k == FieldOrder[i] IN
                        IF /\ s.options = "closed"
                           /\ k \in DOMAIN ValueFields(v)
                           /\ k \notin DOMAIN s.properties
                        THEN <<ValueError(path \o "/" \o k, "Unexpected property", GetField(v, k))>>
                        ELSE <<>>]
                     missing == [i \in DOMAIN FieldOrder |->
                        LET k == FieldOrder[i] IN
                        IF k \in Required(s) /\ k \notin DOMAIN ValueFields(v)
                        THEN <<ValueError(path \o "/" \o k, "Expected required property", "undef")>>
                        ELSE <<>>]
                     inner == [i \in DOMAIN FieldOrder |->
                        LET k == FieldOrder[i] IN
                        IF /\ k \in DOMAIN s.properties
                           /\ (k \in Required(s) \/ GetField(v, k) # "undef")
                        THEN LibErrors(s.properties[k], path \o "/" \o k, GetField(v, k))
                        ELSE <<>>]
                 IN  Flatten(extra) \o Flatten(missing) \o Flatten(inner)
      [] s.kind = "Array" -> <<ValueError(path, "Expected array", v)>>
      [] OTHER -> <<ValueError(path, "Expected Promise", v)>>

\* TypeCompiler.Compile(schema): the validator, permanently bound to the schema
TypeCompilerCompile(s) == [schema |-> s]

-----------------------------------------------------------------------------
(* FluentTypeBuilder: the factory.  Every method allocates a new builder    *)
(* around a new schema handle.  An operation on the builder heap returns    *)
(* [heap |-> the heap afterwards, ret |-> the reference it returns].        *)

NoRef == 0

Alloc(heap, b) == [heap |-> Append(heap, b), ret |-> Len(heap) + 1]

\* FluentTypeBuilderBase.schema()
schema(heap, this) == heap[this].type

\* _.transform(properties, (result, value, key) => result[key] = value.schema(), {})
transformedProperties(heap, properties) ==
    [k \in DOMAIN properties |-> schema(heap, properties[k])]

FT_string(heap) == Alloc(heap, [cls |-> "StringFluentTypeBuilder", type |-> TypeString])
FT_integer(heap) == Alloc(heap, [cls |-> "IntegerFluentTypeBuilder", type |-> TypeInteger])
FT_null(heap) == Alloc(heap, [cls |-> "NullFluentTypeBuilder", type |-> TypeNull])

\* new ObjectFluentTypeBuilder(schema, properties)
ObjectFluentTypeBuilder(type, properties) ==
    [cls |-> "ObjectFluentTypeBuilder", type |-> type, properties |-> properties]

\* variant: object() that does not hand its options on to Type.Object
FT_object_noOptions(heap, properties, options) ==
    Alloc(heap, ObjectFluentTypeBuilder(
                    TypeObject(transformedProperties(heap, properties), "undefined"),
                    properties))

FT_object(heap, properties, options) ==
    Alloc(heap, ObjectFluentTypeBuilder(
                    TypeObject(transformedProperties(heap, properties), options),
                    properties))

\* FluentTypeBuilder.type(schema)
FT_type(heap, s) == Alloc(heap, [cls |-> "CustomFluentTypeBuilder", type |-> s])

(* FluentTypeBuilderBase *)

\* variant: optional() that marks the receiver's own schema and returns the receiver
optional_inPlace(heap, this) ==
    [heap |-> [heap EXCEPT ![this].type = TypeOptional(@)], ret |-> this]

optional(heap, this) ==
    Alloc(heap, [cls |-> "OptionalFluentTypeBuilder", type |-> TypeOptional(heap[this].type)])

nullable(heap, this, options) ==
    Alloc(heap, [cls |-> "NullableFluentTypeBuilder",
                 type |-> TypeUnion(<<TypeNull, heap[this].type>>, options)])

array(heap, this, options) ==
    Alloc(heap, [cls |-> "ArrayFluentTypeBuilder", type |-> TypeArray(heap[this].type, options)])

promised(heap, this, options) ==
    Alloc(heap, [cls |-> "PromiseFluentTypeBuilder",
                 type |-> TypePromise(heap[this].type, options)])

(* ObjectFluentTypeBuilder *)

partial(heap, this, options) ==
    Alloc(heap, [cls |-> "PartialFluentTypeBuilder",
                 type |-> TypePartial(heap[this].type, options)])

\* { ...this.properties, ...properties }: the later spread wins on a collision
Spread(a, b) == b @@ a

extend(heap, this, properties, options) ==
    Alloc(heap, ObjectFluentTypeBuilder(
                    TypeObject(transformedProperties(heap,
                                   Spread(heap[this].properties, properties)), options),
                    properties))

\* _.pick(object, keys)
lodashPick(object, keys) == [k \in DOMAIN object \cap keys |-> object[k]]
\* _.omit(object, keys)
lodashOmit(object, keys) == [k \in DOMAIN object \ keys |-> object[k]]

pick(heap, this, keys, options) ==
    LET pickedProperties == lodashPick(heap[this].properties, keys)
    IN  Alloc(heap, ObjectFluentTypeBuilder(
                        TypeObject(transformedProperties(heap, pickedProperties), options),
                        pickedProperties))

omit(heap, this, keys, options) ==
    LET pickedProperties == lodashOmit(heap[this].properties, keys)
    IN  Alloc(heap, ObjectFluentTypeBuilder(
                        TypeObject(transformedProperties(heap, pickedProperties), options),
                        pickedProperties))

-----------------------------------------------------------------------------
(* compile and the checkers *)

\* the transform functions callers pass to compile; "undefined": none passed
Transforms == {"getId", "same"}

\* transform(value): "getId" is v => v.id, "same" is v => v
ApplyTransform(t, v) == IF t = "getId" THEN GetField(v, "id") ELSE v

\* variant: compile of the earlier revision, which takes no transform
compile_plain(heap, this, transform) ==
    [cls |-> "FluentTypeCheck", typeCheck |-> TypeCompilerCompile(heap[this].type)]

\* FluentTypeBuilderBase.compile(transform?): the new checker instance
compile(heap, this, transform) ==
    IF transform # "undefined"
    THEN [cls |-> "TransformedFluentTypeCheck",
          typeCheck |-> TypeCompilerCompile(heap[this].type), transform |-> transform]
    ELSE [cls |-> "FluentTypeCheck", typeCheck |-> TypeCompilerCompile(heap[this].type)]

\* FluentTypeCheck.check(value)
check(this, v) == LibCheck(checkers[this].typeCheck.schema, v)

\* FluentTypeCheck.errors(value)
errors(this, v) == LibErrors(checkers[this].typeCheck.schema, "", v)

\* variant: the constructor of the earlier revision, (message, options), which
\* finds no value in what it is given
FluentTypeCheckError_noValue(message, typeCheck, v) ==
    [message |-> message, typeCheck |-> typeCheck, value |-> "undef"]

\* new FluentTypeCheckError(message, typeCheck, value)
FluentTypeCheckError(message, typeCheck, v) ==
    [message |-> message, typeCheck |-> typeCheck, value |-> v]

(* parse returns [outcome, ret | error, transformed, enumerated]: what it    *)
(* returns or throws, the arguments it invoked the transform with, and how  *)
(* many times it ran the validator's error enumeration.                      *)

\* variant: parse that returns the value without consulting check
FluentTypeCheck_parse_unchecked(this, v) ==
    [outcome |-> "return", ret |-> v, transformed |-> <<>>, enumerated |-> 0]

\* variant: parse that returns a structural copy of an accepted object
FluentTypeCheck_parse_copy(this, v) ==
    IF ~check(this, v)
    THEN [outcome |-> "throw",
          error |-> FluentTypeCheckError("schema validation failed", this, v),
          transformed |-> <<>>, enumerated |-> 0]
    ELSE [outcome |-> "return",
          ret |-> IF v = "obj" THEN "objTwin" ELSE IF v = "objTwin" THEN "obj" ELSE v,
          transformed |-> <<>>, enumerated |-> 0]

\* variant: parse that enumerates the errors when it builds the error
FluentTypeCheck_parse_eagerErrors(this, v) ==
    IF ~check(this, v)
    THEN [outcome |-> "throw",
          error |-> [message |-> "schema validation failed", typeCheck |-> this,
                     value |-> v, errors |-> errors(this, v)],
          transformed |-> <<>>, enumerated |-> 1]
    ELSE [outcome |-> "return", ret |-> v, transformed |-> <<>>, enumerated |-> 0]

\* variant: parse with the test inverted, raising on the accepted values
FluentTypeCheck_parse_inverted(this, v) ==
    IF check(this, v)
    THEN [outcome |-> "throw",
          error |-> FluentTypeCheckError("schema validation failed", this, v),
          transformed |-> <<>>, enumerated |-> 0]
    ELSE [outcome |-> "return", ret |-> v, transformed |-> <<>>, enumerated |-> 0]

FluentTypeCheck_parse(this, v) ==
    IF ~check(this, v)
    THEN [outcome |-> "throw",
          error |-> FluentTypeCheckError("schema validation failed", this, v),
          transformed |-> <<>>, enumerated |-> 0]
    ELSE [outcome |-> "return", ret |-> v, transformed |-> <<>>, enumerated |-> 0]

\* variant: the transform applied before the check
TransformedFluentTypeCheck_parse_eager(this, v) ==
    IF ~check(this, v)
    THEN [outcome |-> "throw",
          error |-> FluentTypeCheckError("schema validation failed", this, v),
          transformed |-> <<v>>, enumerated |-> 0]
    ELSE [outcome |-> "return", ret |-> ApplyTransform(checkers[this].transform, v),
          transformed |-> <<v>>, enumerated |-> 0]

TransformedFluentTypeCheck_parse(this, v) ==
    IF ~check(this, v)
    THEN [outcome |-> "throw",
          error |-> FluentTypeCheckError("schema validation failed", this, v),
          transformed |-> <<>>, enumerated |-> 0]
    ELSE [outcome |-> "return", ret |-> ApplyTransform(checkers[this].transform, v),
          transformed |-> <<v>>, enumerated |-> 0]

\* virtual dispatch of parse on the receiver's class
parse(this, v) ==
    IF checkers[this].cls = "TransformedFluentTypeCheck"
    THEN TransformedFluentTypeCheck_parse(this, v)
    ELSE FluentTypeCheck_parse(this, v)

\* one line of the detailed output, as the chunk handed to stdout.write
ErrorLine(valueError) ==
    <<"[", valueError.path, "] ", valueError.message, " <",
      TemplateString(valueError.value), ">", "\n">>

RECURSIVE ErrorLines(_)
ErrorLines(es) == IF es = <<>> THEN <<>> ELSE <<ErrorLine(Head(es))>> \o ErrorLines(Tail(es))

\* variant: only the first error is reported
writeDetailedOutput_firstOnly(this) ==
    LET es == errors(caught[this].typeCheck, caught[this].value)
    IN  <<  <<inspect(caught[this].value), "\n">>  >>
        \o (IF es = <<>> THEN <<>> ELSE <<ErrorLine(Head(es))>>)

\* FluentTypeCheckError.writeDetailedOutput(stdout): the chunks it writes, in order
writeDetailedOutput(this) ==
    <<  <<inspect(caught[this].value), "\n">>  >>
    \o ErrorLines(errors(caught[this].typeCheck, caught[this].value))

-----------------------------------------------------------------------------
(* The calls.  Every action is one call by the caller, recorded in last.    *)

Call(op, self, arg, outcome, ret, enumerated) ==
    [op |-> op, self |-> self, arg |-> arg, outcome |-> outcome, ret |-> ret,
     enumerated |-> enumerated]

Returned(op, self, arg, ret) == Call(op, self, arg, "return", ret, 0)

NoCall == Call("none", NoRef, "none", "none", "none", 0)

Made(op, self, arg, options) ==
    [op |-> op, self |-> self, arg |-> arg, options |-> options]

\* what the caller has built first: FT.string(), FT.integer(),
\* FT.object({ id: FT.integer() })
SampleBuilders ==
    LET h1 == FT_string(<<>>).heap
        h2 == FT_integer(h1).heap
    IN  FT_object(h2, [id |-> 2], "undefined").heap

SampleMadeBy ==
    <<Made("string", NoRef, "none", "undefined"),
      Made("integer", NoRef, "none", "undefined"),
      Made("object", NoRef, [id |-> 2], "undefined")>>

Refs == DOMAIN builders
ObjectRefs == {b \in Refs : builders[b].cls = "ObjectFluentTypeBuilder"}

\* the field mappings a caller passes: field name -> one of the leaf builders
FieldMaps == {[name |-> 1], [id |-> 1], [id |-> 2, name |-> 1]}

CheckerFrame == UNCHANGED <<checkers, compiledBy, caught, stdout, transformLog, parseLog>>

\* a builder operation: res is [heap, ret]
Build(op, self, arg, options, res) ==
    /\ Len(builders) < MaxBuilders
    /\ builders' = res.heap
    /\ madeBy' = [r \in DOMAIN res.heap |->
                    IF r \in DOMAIN madeBy THEN madeBy[r] ELSE Made(op, self, arg, options)]
    /\ last' = Returned(op, self, arg, res.ret)
    /\ CheckerFrame

Object ==
    \E properties \in FieldMaps, options \in Options :
        Build("object", NoRef, properties, options,
              FT_object(builders, properties, options))

\* the schema handles a caller has made with the library itself
RawSchemas == {TypeObject([id |-> TypeString], "closed")}

Type ==
    \E s \in RawSchemas : Build("type", NoRef, s, "undefined", FT_type(builders, s))

Optional == \E b \in Refs : Build("optional", b, "none", "undefined", optional(builders, b))
Nullable == \E b \in Refs : Build("nullable", b, "none", "undefined", nullable(builders, b, "undefined"))
Array == \E b \in Refs : Build("array", b, "none", "undefined", array(builders, b, "undefined"))
Promised == \E b \in Refs : Build("promised", b, "none", "undefined", promised(builders, b, "undefined"))
Partial == \E b \in ObjectRefs : Build("partial", b, "none", "undefined", partial(builders, b, "undefined"))

Extend ==
    \E b \in ObjectRefs, properties \in FieldMaps :
        Build("extend", b, properties, "undefined", extend(builders, b, properties, "undefined"))

\* keys: K extends keyof P, names of the receiver's held mapping
Pick ==
    \E b \in ObjectRefs : \E keys \in SUBSET DOMAIN builders[b].properties :
        Build("pick", b, keys, "undefined", pick(builders, b, keys, "undefined"))

Omit ==
    \E b \in ObjectRefs : \E keys \in SUBSET DOMAIN builders[b].properties :
        Build("omit", b, keys, "undefined", omit(builders, b, keys, "undefined"))

\* SpecBuild compiles one checker
Compile ==
    \E b \in Refs, transform \in Transforms \cup {"undefined"} :
        /\ checkers = <<>>
        /\ checkers' = Append(checkers, compile(builders, b, transform))
        /\ compiledBy' = Append(compiledBy, [builder |-> b, transform |-> transform])
        /\ transformLog' = Append(transformLog, <<>>)
        /\ parseLog' = Append(parseLog, <<>>)
        /\ last' = Returned("compile", b, transform, Len(checkers) + 1)
        /\ UNCHANGED <<builders, madeBy, caught, stdout>>

BuilderFrame == UNCHANGED <<builders, madeBy, checkers, compiledBy>>

Check ==
    \E c \in DOMAIN checkers, v \in Inputs :
        /\ last' = Returned("check", c, v, check(c, v))
        /\ BuilderFrame
        /\ UNCHANGED <<caught, stdout, transformLog, parseLog>>

Errors ==
    \E c \in DOMAIN checkers, v \in Inputs :
        /\ last' = Call("errors", c, v, "return", errors(c, v), 1)
        /\ BuilderFrame
        /\ UNCHANGED <<caught, stdout, transformLog, parseLog>>

RECURSIVE SumLen(_)
SumLen(logs) == IF logs = <<>> THEN 0 ELSE Len(Head(logs)) + SumLen(Tail(logs))

\* variant: a parse that throws leaves the checker bound to another validator
Parse_rebinding ==
    \E c \in DOMAIN checkers, v \in Inputs :
        LET r == parse(c, v) IN
        /\ check(c, v) => SumLen(parseLog) < MaxParses
        /\ last' = Call("parse", c, v, r.outcome,
                        IF r.outcome = "throw" THEN r.error ELSE r.ret,
                        r.enumerated)
        /\ caught' = IF r.outcome = "throw" THEN <<r.error>> ELSE caught
        /\ transformLog' = [transformLog EXCEPT ![c] = @ \o r.transformed]
        /\ parseLog' = [parseLog EXCEPT ![c] = IF check(c, v) THEN Append(@, v) ELSE @]
        /\ checkers' = IF r.outcome = "throw"
                       THEN [checkers EXCEPT ![c].typeCheck = TypeCompilerCompile(TypeNull)]
                       ELSE checkers
        /\ UNCHANGED <<builders, madeBy, compiledBy, stdout>>

Parse ==
    \E c \in DOMAIN checkers, v \in Inputs :
        LET r == parse(c, v) IN
        /\ check(c, v) => SumLen(parseLog) < MaxParses
        /\ last' = Call("parse", c, v, r.outcome,
                        IF r.outcome = "throw" THEN r.error ELSE r.ret,
                        r.enumerated)
        /\ caught' = IF r.outcome = "throw" THEN <<r.error>> ELSE caught
        /\ transformLog' = [transformLog EXCEPT ![c] = @ \o r.transformed]
        /\ parseLog' = [parseLog EXCEPT ![c] = IF check(c, v) THEN Append(@, v) ELSE @]
        /\ BuilderFrame
        /\ UNCHANGED stdout

\* variant: reporting consumes the recorded value
WriteDetailedOutput_consuming ==
    \E e \in DOMAIN caught :
        /\ Len(stdout) < MaxStdout
        /\ stdout' = stdout \o writeDetailedOutput(e)
        /\ last' = Call("writeDetailedOutput", e, stdout, "return", "undefined", 1)
        /\ caught' = [caught EXCEPT ![e].value = "undef"]
        /\ BuilderFrame
        /\ UNCHANGED <<transformLog, parseLog>>

\* last.arg: the sink as it was handed over
WriteDetailedOutput ==
    \E e \in DOMAIN caught :
        /\ Len(stdout) < MaxStdout
        /\ stdout' = stdout \o writeDetailedOutput(e)
        /\ last' = Call("writeDetailedOutput", e, stdout, "return", "undefined", 1)
        /\ BuilderFrame
        /\ UNCHANGED <<caught, transformLog, parseLog>>

-----------------------------------------------------------------------------
(* Spec: the checker layer.  The caller has compiled one of the sample      *)
(* builders twice, without and with a transform, and checks, parses and     *)
(* reports; the sink already holds an earlier chunk.                        *)

EarlierOutput == << <<"earlier output", "\n">> >>

Init ==
    /\ builders = SampleBuilders
    /\ madeBy = SampleMadeBy
    /\ \E b \in DOMAIN SampleBuilders \ {1}, transform \in Transforms :
          /\ checkers = <<compile(SampleBuilders, b, "undefined"),
                          compile(SampleBuilders, b, transform)>>
          /\ compiledBy = <<[builder |-> b, transform |-> "undefined"],
                            [builder |-> b, transform |-> transform]>>
    /\ caught = <<>>
    /\ stdout = EarlierOutput
    /\ last = NoCall
    /\ transformLog = << <<>>, <<>> >>
    /\ parseLog = << <<>>, <<>> >>

Next == Check \/ Errors \/ Parse \/ WriteDetailedOutput

Spec == Init /\ [][Next]_vars

-----------------------------------------------------------------------------
(* SpecBuild: the builder facade.  The caller goes on building from the     *)
(* sample builders and compiles.                                            *)

InitBuild ==
    /\ builders = SampleBuilders
    /\ madeBy = SampleMadeBy
    /\ checkers = <<>>
    /\ compiledBy = <<>>
    /\ caught = <<>>
    /\ stdout = <<>>
    /\ last = NoCall
    /\ transformLog = <<>>
    /\ parseLog = <<>>

NextBuild ==
    \/ Object \/ Type \/ Optional \/ Nullable \/ Array \/ Promised
    \/ Partial \/ Extend \/ Pick \/ Omit
    \/ Compile

SpecBuild == InitBuild /\ [][NextBuild]_vars

-----------------------------------------------------------------------------
(* Properties of the checker layer (Spec)                                   *)

LastIs(op) == last.op = op
Accepted == check(last.self, last.arg)
Plain(c) == compiledBy[c].transform = "undefined"

\* C1: whenever parse(v) returns normally, on a plain or a transformed
\* checker, check(v) is true for that v.
C1_ParseReturnsOnlyAccepted ==
    (LastIs("parse") /\ last.outcome = "return") => Accepted

C1_Witness ==
    /\ LastIs("parse") /\ last.outcome = "return"
    /\ ~Plain(last.self)
    /\ caught # <<>>

\* C2: on a checker compiled with no transform, parse of an accepted value
\* returns that very value, and parsing the result again returns it again.
C2_PlainParseReturnsValue ==
    (LastIs("parse") /\ Plain(last.self) /\ Accepted) =>
        /\ last.outcome = "return"
        /\ last.ret = last.arg
        /\ parse(last.self, last.ret).outcome = "return"
        /\ parse(last.self, last.ret).ret = last.arg

C2_Witness ==
    /\ LastIs("parse") /\ Plain(last.self) /\ Accepted
    /\ last.arg = "objTwin"

\* C3: on a checker compiled with a transform, parse of an accepted value
\* returns what the transform passed to compile gives for that value, the
\* transform having been applied to the value itself.
C3_TransformedParseReturnsTransform ==
    (LastIs("parse") /\ ~Plain(last.self) /\ Accepted) =>
        /\ last.outcome = "return"
        /\ last.ret = ApplyTransform(compiledBy[last.self].transform, last.arg)
        /\ transformLog[last.self] # <<>>
        /\ transformLog[last.self][Len(transformLog[last.self])] = last.arg

C3_Witness ==
    /\ LastIs("parse") /\ Accepted
    /\ compiledBy[last.self].transform = "getId"
    /\ last.arg = "obj" /\ last.ret = "five"

\* C4: parse of a rejected value throws a FluentTypeCheckError that holds the
\* value itself and the checker parse was called on, and the errors of that
\* checker for that value are not empty.
C4_RejectedParseThrows ==
    (LastIs("parse") /\ ~Accepted) =>
        /\ last.outcome = "throw"
        /\ last.ret.value = last.arg
        /\ last.ret.typeCheck = last.self
        /\ errors(last.ret.typeCheck, last.ret.value) # <<>>
        /\ caught = <<last.ret>>

C4_Witness ==
    /\ LastIs("parse") /\ last.outcome = "throw"
    /\ last.self = 2 /\ last.arg = "objTwin"

\* C5: the transform of a checker has been invoked once for every parse call
\* on an accepted value, with that value, and for nothing else: never by a
\* parse that throws, by check, by errors or by writeDetailedOutput.
C5_TransformOncePerAcceptedParse ==
    \A c \in DOMAIN checkers :
        /\ transformLog[c] = (IF Plain(c) THEN <<>> ELSE parseLog[c])
        /\ \A i \in DOMAIN transformLog[c] : check(c, transformLog[c][i])

C5_Witness ==
    /\ ~Plain(2) /\ Len(transformLog[2]) >= 1
    /\ caught # <<>> /\ caught[1].typeCheck = 2
    /\ LastIs("writeDetailedOutput")

\* the chunks the last writeDetailedOutput wrote, and the errors it enumerated
Written == SubSeq(stdout, Len(last.arg) + 1, Len(stdout))
Reported == errors(caught[last.self].typeCheck, caught[last.self].value)

\* a chunk of the form `[path] message <value>` for the error e
IsErrorLine(chunk, e) ==
    /\ Len(chunk) = 8
    /\ chunk[1] = "[" /\ chunk[2] = e.path /\ chunk[3] = "] "
    /\ chunk[4] = e.message
    /\ chunk[5] = " <" /\ chunk[6] = TemplateString(e.value) /\ chunk[7] = ">"
    /\ chunk[8] = "\n"

\* C6 as stated: writeDetailedOutput writes one line per error, each of the
\* form `[path] message <value>`, and nothing else.
C6_OneLinePerError ==
    LastIs("writeDetailedOutput") =>
        /\ Len(Written) = Len(Reported)
        /\ \A i \in DOMAIN Written : IsErrorLine(Written[i], Reported[i])

\* C6 as the code has it: writeDetailedOutput first writes inspect(value) and
\* a newline, then one line per error of errors(value), in enumeration
\* order, each of the form `[path] message <value>`.
C6_InspectThenOneLinePerError ==
    LastIs("writeDetailedOutput") =>
        /\ Len(Written) = 1 + Len(Reported)
        /\ Written[1] = <<inspect(caught[last.self].value), "\n">>
        /\ \A i \in DOMAIN Reported : IsErrorLine(Written[i + 1], Reported[i])

C6_Witness ==
    /\ LastIs("writeDetailedOutput")
    /\ Len(Reported) >= 2

\* C9: a checker is stateless: no call changes what check(v) and errors(v)
\* give for any value, the checker stays bound to the schema of the builder
\* it was compiled from, and what check and errors returned is what they
\* give when called again.
C9_Bound ==
    /\ \A c \in DOMAIN checkers :
          checkers[c].typeCheck = TypeCompilerCompile(schema(builders, compiledBy[c].builder))
    /\ LastIs("check") => last.ret = check(last.self, last.arg)
    /\ LastIs("errors") => last.ret = errors(last.self, last.arg)

\* (an unchanged checker instance gives what it gave: only a changed one
\* needs its results compared)
C9_Step ==
    \A c \in DOMAIN checkers :
        /\ c \in DOMAIN checkers'
        /\ \/ checkers'[c] = checkers[c]
           \/ \A v \in Inputs :
                 /\ check(c, v)' = check(c, v)
                 /\ errors(c, v)' = errors(c, v)

C9_CheckerStateless == []C9_Bound /\ [][C9_Step]_vars

C9_Witness ==
    /\ LastIs("errors") /\ last.ret # <<>>
    /\ caught # <<>>
    /\ SumLen(parseLog) > 0
    /\ Len(stdout) > Len(EarlierOutput)

\* C10: writeDetailedOutput only appends to the sink: the error's value and
\* checker, the checkers and what check and errors give stay as they were,
\* the sink's earlier content is a prefix of its content afterwards, and the
\* call returns.
C10_Step ==
    (last'.op = "writeDetailedOutput") =>
        /\ caught' = caught
        /\ checkers' = checkers
        /\ \A c \in DOMAIN checkers, v \in Inputs :
              /\ check(c, v)' = check(c, v)
              /\ errors(c, v)' = errors(c, v)
        /\ Len(stdout') >= Len(stdout)
        /\ SubSeq(stdout', 1, Len(stdout)) = stdout
        /\ last'.outcome = "return"
        /\ UNCHANGED <<builders, transformLog, parseLog>>

C10_ReportingObservational == [][C10_Step]_vars

C10_Witness ==
    /\ LastIs("writeDetailedOutput")
    /\ last.arg # <<>>
    /\ Len(stdout) > Len(last.arg)
    /\ caught # <<>>

\* C11: error detail is computed on demand.  A parse, failing or not, and a
\* check run the validator's error enumeration zero times, and the error a
\* failing parse raises carries the message, the checker and the value but no
\* enumerated detail; each call of errors(v) and each call of
\* writeDetailedOutput runs the enumeration exactly once.
C11_ErrorDetailOnDemand ==
    /\ (LastIs("parse") \/ LastIs("check")) => last.enumerated = 0
    /\ (LastIs("parse") /\ last.outcome = "throw") =>
            DOMAIN last.ret = {"message", "typeCheck", "value"}
    /\ (LastIs("errors") \/ LastIs("writeDetailedOutput")) => last.enumerated = 1
    /\ \A e \in DOMAIN caught : DOMAIN caught[e] = {"message", "typeCheck", "value"}

C11_Witness ==
    /\ LastIs("parse") /\ last.outcome = "throw"
    /\ Plain(last.self)
    /\ last.enumerated = 0
    /\ Len(errors(last.self, last.arg)) > 1

\* C12: the one error raised is the schema validation failure.  A call that
\* raises is a parse of a value that check rejects, and what it raises is the
\* FluentTypeCheckError with message 'schema validation failed' for that
\* checker and value; check, errors, writeDetailedOutput, compile and the
\* builder operations return, and parse of an accepted value returns.
C12_OnlyRejectedParseRaises ==
    /\ last.outcome \in {"none", "return", "throw"}
    /\ last.outcome = "throw" =>
            /\ LastIs("parse")
            /\ ~Accepted
            /\ last.ret = FluentTypeCheckError("schema validation failed",
                                               last.self, last.arg)
    /\ (LastIs("parse") /\ Accepted) => last.outcome = "return"
    /\ ~LastIs("parse") => last.outcome # "throw"
    /\ \A e \in DOMAIN caught : caught[e].message = "schema validation failed"

C12_Witness ==
    /\ LastIs("parse") /\ last.outcome = "throw"
    /\ ~Plain(last.self)
    /\ last.ret.message = "schema validation failed"
    /\ last.arg = "objBad"

-----------------------------------------------------------------------------
(* Properties of the builder facade (SpecBuild)                             *)

\* C7 as stated: for b built by object(fields), b.extend(new fields, none of
\* them a field of b) followed by omit of those same names has the field
\* set of b in its schema.
C7_ExtendOmitRoundTrip ==
    \A r \in DOMAIN builders :
        (/\ madeBy[r].op = "omit"
         /\ madeBy[madeBy[r].self].op = "extend"
         /\ madeBy[madeBy[madeBy[r].self].self].op = "object"
         /\ madeBy[r].arg = DOMAIN madeBy[madeBy[r].self].arg
         /\ DOMAIN madeBy[madeBy[r].self].arg
               \cap DOMAIN schema(builders, madeBy[madeBy[r].self].self).properties = {})
        => schema(builders, r).properties
              = schema(builders, madeBy[madeBy[r].self].self).properties

BuilderOps ==
    {"object", "type", "optional", "nullable", "array", "promised", "partial", "extend",
     "pick", "omit"}

\* C8: no operation changes a builder: every builder keeps its schema handle
\* and its held field mapping, and every operation but compile returns a new
\* builder instance, not the receiver.
C8_Step ==
    /\ \A b \in DOMAIN builders :
          /\ b \in DOMAIN builders'
          /\ schema(builders', b) = schema(builders, b)
          /\ builders'[b] = builders[b]
    /\ last'.op \in BuilderOps =>
          /\ last'.ret \notin DOMAIN builders
          /\ last'.ret \in DOMAIN builders'
          /\ last'.ret # last'.self

C8_BuildersImmutable == [][C8_Step]_vars

C8_Witness ==
    \E b, r1, r2 \in DOMAIN builders :
        /\ madeBy[r1].op = "extend" /\ madeBy[r1].self = b
        /\ madeBy[r2].op = "optional" /\ madeBy[r2].self = b
        /\ checkers # <<>> /\ compiledBy[1].builder = b

\* what the library's own constructor gives for the arguments of the call
\* that made builder r, the receiver's and the fields' schemas read now
DirectlyConstructed(r) ==
    LET m == madeBy[r] IN
    CASE m.op = "string" -> TypeString
      [] m.op = "integer" -> TypeInteger
      [] m.op = "object" ->
            TypeObject([k \in DOMAIN m.arg |-> schema(builders, m.arg[k])], m.options)
      [] m.op = "type" -> m.arg
      [] m.op = "optional" -> TypeOptional(schema(builders, m.self))
      [] m.op = "nullable" ->
            TypeUnion(<<TypeNull, schema(builders, m.self)>>, m.options)
      [] m.op = "array" -> TypeArray(schema(builders, m.self), m.options)
      [] m.op = "promised" -> TypePromise(schema(builders, m.self), m.options)
      [] m.op = "partial" -> TypePartial(schema(builders, m.self), m.options)

ConstructorOps ==
    {"string", "integer", "object", "type", "optional", "nullable", "array",
     "promised", "partial"}

\* C13: schema() of a builder equals what the library's direct constructor
\* produces for the same arguments: object(fields, options) gives Type.Object
\* of the fields' schemas with those options, nullable gives
\* Union([Null, schema]), optional, array and promised give Optional, Array
\* and Promise of the receiver's schema, and type(s) gives s.
C13_SchemaIsDirectConstruction ==
    \A r \in Refs :
        madeBy[r].op \in ConstructorOps =>
            schema(builders, r) = DirectlyConstructed(r)

C13_Witness ==
    \E r \in Refs :
        /\ madeBy[r].op = "nullable"
        /\ madeBy[madeBy[r].self].op = "object"
        /\ madeBy[madeBy[r].self].options = "closed"
        /\ DOMAIN madeBy[madeBy[r].self].arg = {"id", "name"}
        /\ schema(builders, r).anyOf[2].options = "closed"

\* C14 as stated: every object builder made by object, extend, pick or omit
\* holds a field mapping whose names are the property names of its schema,
\* each held child builder's schema being the schema of that property.
C14_FieldMappingConsistent ==
    \A r \in ObjectRefs :
        madeBy[r].op \in {"object", "extend", "pick", "omit"} =>
            /\ DOMAIN builders[r].properties = DOMAIN schema(builders, r).properties
            /\ \A k \in DOMAIN builders[r].properties :
                    schema(builders, builders[r].properties[k])
                        = schema(builders, r).properties[k]

====
